---- MODULE Spec2Model ----
(***************************************************************************)
(* RectangleDetector (src/rectangle_detection.py): the scoring pipeline of *)
(* process_images over one detector object.                                *)
(*                                                                         *)
(* The colour segmentation (cv2) is not modelled.  The detection step      *)
(* hands the scorer lists of rect_info / point_info dictionaries; here it  *)
(* draws them from small sets of bounding boxes and centroids.  The        *)
(* dictionaries are built as the code builds them (id, area = w * h,       *)
(* truncated center).  The scoring methods are public and take any such    *)
(* list, so boxes with width or height 0 are among the inputs, and the     *)
(* detection step's size thresholds (area > 500, > 300, > 10) are not      *)
(* applied to the scaled-down boxes.                                       *)
(*                                                                         *)
(* Python floats are modelled as exact rationals <<num, den>> in lowest    *)
(* terms (den > 0); float rounding is not modelled.                        *)
(***************************************************************************)
EXTENDS Integers, Sequences, FiniteSets

\* ------------------------------------------------------------- bounds
\* Longest list of red rectangles, brown rectangles and cyan points that
\* the detection step hands to the scorer.
MaxRed == 2
MaxBrown == 2
MaxCyan == 2

\* The same, for each of two calls made on one detector.
MaxRedShared == 1
MaxBrownShared == 1
MaxCyanShared == 1

\* ---------------------------------------------------------- rationals
Abs(n) == IF n < 0 THEN -n ELSE n

RECURSIVE GCD(_, _)
GCD(a, b) == IF b = 0 THEN a ELSE GCD(b, a % b)

\* n / d as a Python float (int / int true division), d # 0
Rat(n, d) ==
    LET s == IF d < 0 THEN -1 ELSE 1
        g == GCD(Abs(n), Abs(d))
    IN  <<(s * n) \div g, (s * d) \div g>>

Zero == Rat(0, 1)
One == Rat(1, 1)

RAdd(a, b) == Rat(a[1] * b[2] + b[1] * a[2], a[2] * b[2])
RSub(a, b) == Rat(a[1] * b[2] - b[1] * a[2], a[2] * b[2])
RDiv(a, b) == Rat(a[1] * b[2], a[2] * b[1])
RLt(a, b) == a[1] * b[2] < b[1] * a[2]
\* Python's max(a, b): b only when b > a
RMax(a, b) == IF RLt(a, b) THEN b ELSE a
RAbs(a) == <<Abs(a[1]), a[2]>>

\* ----------------------------------------------------------- geometry
\* int(v) of a float v = n / 2: truncation toward zero
TruncHalf(n) == IF n >= 0 THEN n \div 2 ELSE -((-n) \div 2)

\* the halving applied to the far edge instead of the side
RectInfoHalvedEdge(id, x, y, w, h) ==
    [id |-> id, x |-> x, y |-> y, width |-> w, height |-> h,
     area |-> w * h,
     center |-> <<TruncHalf(x + w), TruncHalf(y + h)>>]

\* rect_info: "center": (int(x + w/2), int(y + h/2)), "area": w * h
RectInfo(id, x, y, w, h) ==
    [id |-> id, x |-> x, y |-> y, width |-> w, height |-> h,
     area |-> w * h,
     center |-> <<TruncHalf(2 * x + w), TruncHalf(2 * y + h)>>]

\* point_info: the point's own area plays no part in the scoring
PointInfo(id, x, y) == [id |-> id, x |-> x, y |-> y]

\* the upper edges left out of the box
is_inside_rectangle_strict(point, rectangle) ==
    /\ rectangle.x <= point[1]
    /\ point[1] < rectangle.x + rectangle.width
    /\ rectangle.y <= point[2]
    /\ point[2] < rectangle.y + rectangle.height

is_inside_rectangle(point, rectangle) ==
    /\ rectangle.x <= point[1]
    /\ point[1] <= rectangle.x + rectangle.width
    /\ rectangle.y <= point[2]
    /\ point[2] <= rectangle.y + rectangle.height

\* ---------------------------------------------------- detection step
\* Bounding boxes (x, y, w, h) the red-contour detection may report:
\* [0,2]x[0,2] (area 4), [2,4]x[1,2] (area 2, sharing the edge x = 2 with
\* the first) and the degenerate [0,2]x{3} (area 0).
RedBoxes == {<<0, 0, 2, 2>>, <<2, 1, 2, 1>>, <<0, 3, 2, 0>>}

\* Bounding boxes the brown-contour detection may report: centers (1,1)
\* (area 4), (4,1) (area 2), (1,2) (area 0) and (1,3) (area 4).
BrownBoxes == {<<0, 0, 2, 2>>, <<3, 1, 2, 1>>, <<1, 2, 0, 1>>, <<0, 2, 2, 2>>}

\* Centroids the cyan-contour detection may report: inside the first red
\* box, on the corner the first two share, and on the degenerate third.
CyanCentroids == {<<1, 1>>, <<2, 2>>, <<1, 3>>}

SeqsUpTo(S, n) == UNION {[1..k -> S] : k \in 0..n}

\* for i, contour in enumerate(contours): rect_info with "id": i
RectList(boxes) ==
    [i \in 1..Len(boxes) |->
        RectInfo(i - 1, boxes[i][1], boxes[i][2], boxes[i][3], boxes[i][4])]

PointList(pts) ==
    [i \in 1..Len(pts) |-> PointInfo(i - 1, pts[i][1], pts[i][2])]

\* ------------------------------------------- exclude_cyan_only_red_...
has_brown_rectangle(red_rect, brown_rects) ==
    \E j \in 1..Len(brown_rects) :
        is_inside_rectangle(brown_rects[j].center, red_rect)

has_cyan_point(red_rect, cyans) ==
    \E j \in 1..Len(cyans) :
        is_inside_rectangle(<<cyans[j].x, cyans[j].y>>, red_rect)

\* the two tests swapped: has_brown_rectangle and not has_cyan_point
is_excluded_swapped(red_rect, brown_rects, cyans) ==
    has_brown_rectangle(red_rect, brown_rects) /\ ~has_cyan_point(red_rect, cyans)

\* the test on the brown rectangles left out
is_excluded_any_cyan(red_rect, brown_rects, cyans) ==
    has_cyan_point(red_rect, cyans)

\* if has_cyan_point and not has_brown_rectangle
is_excluded(red_rect, brown_rects, cyans) ==
    has_cyan_point(red_rect, cyans) /\ ~has_brown_rectangle(red_rect, brown_rects)

\* the else left out: every rectangle is appended to the filtered list
RECURSIVE ExcludeLoopNoElse(_, _, _, _, _, _)
ExcludeLoopNoElse(reds, brown_rects, cyans, i, filtered, excluded) ==
    IF i > Len(reds)
    THEN [filtered |-> filtered, excluded |-> excluded]
    ELSE IF is_excluded(reds[i], brown_rects, cyans)
         THEN ExcludeLoopNoElse(reds, brown_rects, cyans, i + 1,
                                Append(filtered, reds[i]),
                                Append(excluded, reds[i]))
         ELSE ExcludeLoopNoElse(reds, brown_rects, cyans, i + 1,
                                Append(filtered, reds[i]), excluded)

RECURSIVE ExcludeLoop(_, _, _, _, _, _)
ExcludeLoop(reds, brown_rects, cyans, i, filtered, excluded) ==
    IF i > Len(reds)
    THEN [filtered |-> filtered, excluded |-> excluded]
    ELSE IF is_excluded(reds[i], brown_rects, cyans)
         THEN ExcludeLoop(reds, brown_rects, cyans, i + 1,
                          filtered, Append(excluded, reds[i]))
         ELSE ExcludeLoop(reds, brown_rects, cyans, i + 1,
                          Append(filtered, reds[i]), excluded)

\* -------------------------------------------------- calculate_z_values
RECURSIVE SumArea(_)
SumArea(rects) ==
    IF rects = <<>> THEN 0 ELSE Head(rects).area + SumArea(Tail(rects))

\* the test made on the rectangle's own area: zero-area entries skipped
RECURSIVE ZLoopSkipZero(_, _, _, _)
ZLoopSkipZero(rects, total, i, zs) ==
    IF i > Len(rects)
    THEN zs
    ELSE IF rects[i].area > 0
         THEN ZLoopSkipZero(rects, total, i + 1,
                            Append(zs, Rat(rects[i].area, total)))
         ELSE ZLoopSkipZero(rects, total, i + 1, zs)

RECURSIVE ZLoop(_, _, _, _)
ZLoop(rects, total, i, zs) ==
    IF i > Len(rects)
    THEN zs
    ELSE IF total > 0
         THEN ZLoop(rects, total, i + 1, Append(zs, Rat(rects[i].area, total)))
         ELSE ZLoop(rects, total, i + 1, zs)

RECURSIVE MaxArea(_)
MaxArea(rects) ==
    IF rects = <<>> THEN 0
    ELSE IF Head(rects).area > MaxArea(Tail(rects))
         THEN Head(rects).area ELSE MaxArea(Tail(rects))

\* the areas scaled by the largest area instead of the total
ZValuesByMax(rects) == ZLoop(rects, MaxArea(rects), 1, <<>>)

ZValues(rects) == ZLoop(rects, SumArea(rects), 1, <<>>)

\* --------------------------------------- calculate_first_layer_accuracy
Min(a, b) == IF a <= b THEN a ELSE b

\* the relative error itself, not its complement
PairAccuracyNoComplement(z1, z2) ==
    IF RLt(Zero, RMax(z1, z2))
    THEN RDiv(RAbs(RSub(z1, z2)), RMax(z1, z2))
    ELSE Zero

\* the abs left out
PairAccuracySigned(z1, z2) ==
    IF RLt(Zero, RMax(z1, z2))
    THEN RSub(One, RDiv(RSub(z1, z2), RMax(z1, z2)))
    ELSE Zero

\* the division by max(z1, z2) left out
PairAccuracyAbsolute(z1, z2) ==
    IF RLt(Zero, RMax(z1, z2))
    THEN RSub(One, RAbs(RSub(z1, z2)))
    ELSE Zero

\* accuracy = 1 - abs(z1 - z2) / max(z1, z2) if max(z1, z2) > 0 else 0.0
PairAccuracy(z1, z2) ==
    IF RLt(Zero, RMax(z1, z2))
    THEN RSub(One, RDiv(RAbs(RSub(z1, z2)), RMax(z1, z2)))
    ELSE Zero

\* z2 read from the far end
RECURSIVE FirstLayerLoopReversed(_, _, _, _, _)
FirstLayerLoopReversed(z1s, z2s, min_len, i, accs) ==
    IF i > min_len
    THEN accs
    ELSE FirstLayerLoopReversed(z1s, z2s, min_len, i + 1,
             Append(accs, PairAccuracy(z1s[i], z2s[Len(z2s) + 1 - i])))

RECURSIVE FirstLayerLoop(_, _, _, _, _)
FirstLayerLoop(z1s, z2s, min_len, i, accs) ==
    IF i > min_len
    THEN accs
    ELSE FirstLayerLoop(z1s, z2s, min_len, i + 1,
                        Append(accs, PairAccuracy(z1s[i], z2s[i])))

FirstLayer(z1s, z2s) ==
    FirstLayerLoop(z1s, z2s, Min(Len(z1s), Len(z2s)), 1, <<>>)

RECURSIVE RSum(_)
RSum(vals) == IF vals = <<>> THEN Zero ELSE RAdd(Head(vals), RSum(Tail(vals)))

\* np.mean(vals) if vals else 0.0
MeanOrZero(vals) ==
    IF vals = <<>> THEN Zero ELSE RDiv(RSum(vals), Rat(Len(vals), 1))

\* -------------------------------------- calculate_second_layer_accuracy
matches_in_red(red_rect, brown_rects) ==
    Cardinality({j \in 1..Len(brown_rects) :
        is_inside_rectangle(brown_rects[j].center, red_rect)})

total_targets_in_red(red_rect, brown_rects, cyans) ==
    matches_in_red(red_rect, brown_rects)
    + Cardinality({j \in 1..Len(cyans) :
        is_inside_rectangle(<<cyans[j].x, cyans[j].y>>, red_rect)})

\* a rectangle without targets counted in the divisor, as a ratio of 0
RECURSIVE SecondLayerLoopCountAll(_, _, _, _, _, _)
SecondLayerLoopCountAll(reds, brown_rects, cyans, i, sum_ratios, valid_matches) ==
    IF i > Len(reds)
    THEN IF valid_matches > 0
         THEN RDiv(sum_ratios, Rat(valid_matches, 1))
         ELSE Zero
    ELSE IF total_targets_in_red(reds[i], brown_rects, cyans) > 0
         THEN SecondLayerLoopCountAll(reds, brown_rects, cyans, i + 1,
                  RAdd(sum_ratios,
                       Rat(matches_in_red(reds[i], brown_rects),
                           total_targets_in_red(reds[i], brown_rects, cyans))),
                  valid_matches + 1)
         ELSE SecondLayerLoopCountAll(reds, brown_rects, cyans, i + 1,
                                      sum_ratios, valid_matches + 1)

RECURSIVE SecondLayerLoop(_, _, _, _, _, _)
SecondLayerLoop(reds, brown_rects, cyans, i, sum_ratios, valid_matches) ==
    IF i > Len(reds)
    THEN IF valid_matches > 0
         THEN RDiv(sum_ratios, Rat(valid_matches, 1))
         ELSE Zero
    ELSE IF total_targets_in_red(reds[i], brown_rects, cyans) > 0
         THEN SecondLayerLoop(reds, brown_rects, cyans, i + 1,
                  RAdd(sum_ratios,
                       Rat(matches_in_red(reds[i], brown_rects),
                           total_targets_in_red(reds[i], brown_rects, cyans))),
                  valid_matches + 1)
         ELSE SecondLayerLoop(reds, brown_rects, cyans, i + 1,
                              sum_ratios, valid_matches)

\* the sum of the ratios returned without the division by valid_matches
SecondLayerSum(reds, brown_rects, cyans) ==
    IF reds = <<>> THEN Zero
    ELSE LET mean == SecondLayerLoop(reds, brown_rects, cyans, 1, Zero, 0)
             n == Cardinality({i \in 1..Len(reds) :
                      total_targets_in_red(reds[i], brown_rects, cyans) > 0})
         IN  RDiv(mean, Rat(1, IF n > 0 THEN n ELSE 1))  \* mean * n

SecondLayer(reds, brown_rects, cyans) ==
    IF reds = <<>> THEN Zero
    ELSE SecondLayerLoop(reds, brown_rects, cyans, 1, Zero, 0)

\* ------------------------------------------------------------- state
VARIABLES
    pc,                       \* the next step of process_images
    detection_results,        \* self.detection_results
    red_rectangles,           \* locals of process_images
    brown_rectangles,
    cyan_points,
    filtered_red_rectangles,
    z1_values,
    z2_values,
    first_layer_accuracies,
    second_layer_accuracy,
    other                     \* a second process_images call, while it is not running

vars == <<pc, detection_results, red_rectangles, brown_rectangles, cyan_points,
          filtered_red_rectangles, z1_values, z2_values,
          first_layer_accuracies, second_layer_accuracy, other>>

\* a local that is not bound yet
Unbound == <<>>

locals == <<red_rectangles, brown_rectangles, cyan_points,
            filtered_red_rectangles, z1_values, z2_values,
            first_layer_accuracies, second_layer_accuracy>>

\* the frame of a process_images call: its position and its locals
Frame(at) ==
    [pc |-> at,
     red_rectangles |-> Unbound,
     brown_rectangles |-> Unbound,
     cyan_points |-> Unbound,
     filtered_red_rectangles |-> Unbound,
     z1_values |-> Unbound,
     z2_values |-> Unbound,
     first_layer_accuracies |-> Unbound,
     second_layer_accuracy |-> Unbound]

\* RectangleDetector.__init__, then process_images entered
Init ==
    /\ pc = "detect"
    /\ other = Frame("none")
    /\ detection_results =
         [red_rectangles |-> <<>>,
          brown_rectangles |-> <<>>,
          cyan_points |-> <<>>,
          z1_values |-> <<>>,
          z2_values |-> <<>>,
          first_layer_accuracy |-> <<>>,
          second_layer_accuracy |-> Zero,
          excluded_red_rectangles |-> <<>>,
          matching_statistics |-> <<>>]
    /\ red_rectangles = Unbound
    /\ brown_rectangles = Unbound
    /\ cyan_points = Unbound
    /\ filtered_red_rectangles = Unbound
    /\ z1_values = Unbound
    /\ z2_values = Unbound
    /\ first_layer_accuracies = Unbound
    /\ second_layer_accuracy = Unbound

\* detect_red_rectangles and detect_brown_rectangles_and_cyan_points: the
\* lists are returned and appended to the detector's record
DetectUpTo(nr, nb, nc) ==
    /\ pc = "detect"
    /\ \E rb \in SeqsUpTo(RedBoxes, nr),
          bb \in SeqsUpTo(BrownBoxes, nb),
          cc \in SeqsUpTo(CyanCentroids, nc) :
         /\ red_rectangles' = RectList(rb)
         /\ brown_rectangles' = RectList(bb)
         /\ cyan_points' = PointList(cc)
         /\ detection_results' =
              [detection_results EXCEPT
                 !.red_rectangles = @ \o RectList(rb),
                 !.brown_rectangles = @ \o RectList(bb),
                 !.cyan_points = @ \o PointList(cc)]
    /\ pc' = "exclude"
    /\ UNCHANGED other
    /\ UNCHANGED <<filtered_red_rectangles, z1_values, z2_values,
                   first_layer_accuracies, second_layer_accuracy>>

Detect == DetectUpTo(MaxRed, MaxBrown, MaxCyan)

\* filtered_red_rectangles = self.exclude_cyan_only_red_rectangles(...)
exclude_cyan_only_red_rectangles ==
    /\ pc = "exclude"
    /\ LET out == ExcludeLoop(red_rectangles, brown_rectangles, cyan_points,
                              1, <<>>, <<>>)
       IN  /\ filtered_red_rectangles' = out.filtered
           /\ detection_results' =
                [detection_results EXCEPT
                   !.excluded_red_rectangles = out.excluded]
    /\ pc' = "z"
    /\ UNCHANGED other
    /\ UNCHANGED <<red_rectangles, brown_rectangles, cyan_points, z1_values,
                   z2_values, first_layer_accuracies, second_layer_accuracy>>

\* the unfiltered red list handed to calculate_z_values
calculate_z_values_unfiltered ==
    /\ pc = "z"
    /\ z1_values' = ZValues(red_rectangles)
    /\ z2_values' = ZValues(brown_rectangles)
    /\ detection_results' =
         [detection_results EXCEPT
            !.z1_values = ZValues(red_rectangles),
            !.z2_values = ZValues(brown_rectangles)]
    /\ pc' = "first"
    /\ UNCHANGED other
    /\ UNCHANGED <<red_rectangles, brown_rectangles, cyan_points,
                   filtered_red_rectangles, first_layer_accuracies,
                   second_layer_accuracy>>

\* z1_values, z2_values = self.calculate_z_values(filtered, brown)
calculate_z_values ==
    /\ pc = "z"
    /\ z1_values' = ZValues(filtered_red_rectangles)
    /\ z2_values' = ZValues(brown_rectangles)
    /\ detection_results' =
         [detection_results EXCEPT
            !.z1_values = ZValues(filtered_red_rectangles),
            !.z2_values = ZValues(brown_rectangles)]
    /\ pc' = "first"
    /\ UNCHANGED other
    /\ UNCHANGED <<red_rectangles, brown_rectangles, cyan_points,
                   filtered_red_rectangles, first_layer_accuracies,
                   second_layer_accuracy>>

\* first_layer_accuracies = self.calculate_first_layer_accuracy(z1, z2)
calculate_first_layer_accuracy ==
    /\ pc = "first"
    /\ first_layer_accuracies' = FirstLayer(z1_values, z2_values)
    /\ detection_results' =
         [detection_results EXCEPT
            !.first_layer_accuracy = FirstLayer(z1_values, z2_values)]
    /\ pc' = "second"
    /\ UNCHANGED other
    /\ UNCHANGED <<red_rectangles, brown_rectangles, cyan_points,
                   filtered_red_rectangles, z1_values, z2_values,
                   second_layer_accuracy>>

\* second_layer_accuracy = self.calculate_second_layer_accuracy(filtered,
\* brown, cyan): the early return for an empty list leaves the record alone
calculate_second_layer_accuracy ==
    /\ pc = "second"
    /\ second_layer_accuracy' =
         SecondLayer(filtered_red_rectangles, brown_rectangles, cyan_points)
    /\ detection_results' =
         IF filtered_red_rectangles = <<>>
         THEN detection_results
         ELSE [detection_results EXCEPT
                 !.second_layer_accuracy =
                    SecondLayer(filtered_red_rectangles, brown_rectangles,
                                cyan_points)]
    /\ pc' = "stats"
    /\ UNCHANGED other
    /\ UNCHANGED <<red_rectangles, brown_rectangles, cyan_points,
                   filtered_red_rectangles, z1_values, z2_values,
                   first_layer_accuracies>>

\* the statistics dictionary, without its processing_timestamp
Statistics(reds, brown_rects, cyans, results) ==
    [detection_summary |->
        [red_rectangles_count |-> Len(reds),
         brown_rectangles_count |-> Len(brown_rects),
         cyan_points_count |-> Len(cyans),
         excluded_red_rectangles_count |-> Len(results.excluded_red_rectangles)],
     accuracy_summary |->
        [first_layer_accuracies |-> results.first_layer_accuracy,
         first_layer_avg_accuracy |-> MeanOrZero(results.first_layer_accuracy),
         second_layer_accuracy |-> results.second_layer_accuracy],
     z_values_summary |->
        [z1_values |-> results.z1_values,
         z2_values |-> results.z2_values,
         z1_avg |-> MeanOrZero(results.z1_values),
         z2_avg |-> MeanOrZero(results.z2_values)]]

\* self.generate_matching_statistics(filtered, brown, cyan)
generate_matching_statistics ==
    /\ pc = "stats"
    /\ detection_results' =
         [detection_results EXCEPT
            !.matching_statistics =
               Statistics(filtered_red_rectangles, brown_rectangles,
                          cyan_points, detection_results)]
    /\ pc' = "done"
    /\ UNCHANGED other
    /\ UNCHANGED locals

Next ==
    \/ Detect
    \/ exclude_cyan_only_red_rectangles
    \/ calculate_z_values
    \/ calculate_first_layer_accuracy
    \/ calculate_second_layer_accuracy
    \/ generate_matching_statistics

Spec == Init /\ [][Next]_vars

\* ------------------------------------- two calls on one detector
\* Two process_images calls on the same RectangleDetector.  One call runs
\* at a time on the variables above; the frame of the other is kept in
\* `other`, and Switch hands the processor over between two steps.  The
\* detector's record is the one object both calls write.
DetectShared == DetectUpTo(MaxRedShared, MaxBrownShared, MaxCyanShared)

SwapFrames ==
    /\ other' = [pc |-> pc,
                 red_rectangles |-> red_rectangles,
                 brown_rectangles |-> brown_rectangles,
                 cyan_points |-> cyan_points,
                 filtered_red_rectangles |-> filtered_red_rectangles,
                 z1_values |-> z1_values,
                 z2_values |-> z2_values,
                 first_layer_accuracies |-> first_layer_accuracies,
                 second_layer_accuracy |-> second_layer_accuracy]
    /\ pc' = other.pc
    /\ red_rectangles' = other.red_rectangles
    /\ brown_rectangles' = other.brown_rectangles
    /\ cyan_points' = other.cyan_points
    /\ filtered_red_rectangles' = other.filtered_red_rectangles
    /\ z1_values' = other.z1_values
    /\ z2_values' = other.z2_values
    /\ first_layer_accuracies' = other.first_layer_accuracies
    /\ second_layer_accuracy' = other.second_layer_accuracy
    /\ UNCHANGED detection_results

\* the other call runs next, at any point between two steps
Switch ==
    /\ other.pc \notin {"none", "done"}
    /\ SwapFrames

\* the second call is made when the first has returned
CallAgain ==
    /\ pc = "done"
    /\ other.pc = "detect"
    /\ SwapFrames

InitShared ==
    /\ pc = "detect"
    /\ other = Frame("detect")
    /\ detection_results =
         [red_rectangles |-> <<>>,
          brown_rectangles |-> <<>>,
          cyan_points |-> <<>>,
          z1_values |-> <<>>,
          z2_values |-> <<>>,
          first_layer_accuracy |-> <<>>,
          second_layer_accuracy |-> Zero,
          excluded_red_rectangles |-> <<>>,
          matching_statistics |-> <<>>]
    /\ red_rectangles = Unbound
    /\ brown_rectangles = Unbound
    /\ cyan_points = Unbound
    /\ filtered_red_rectangles = Unbound
    /\ z1_values = Unbound
    /\ z2_values = Unbound
    /\ first_layer_accuracies = Unbound
    /\ second_layer_accuracy = Unbound

Steps ==
    \/ DetectShared
    \/ exclude_cyan_only_red_rectangles
    \/ calculate_z_values
    \/ calculate_first_layer_accuracy
    \/ calculate_second_layer_accuracy
    \/ generate_matching_statistics

\* two calls interleaved at the granularity of the pipeline steps
NextInterleaved == Steps \/ Switch

SpecInterleaved == InitShared /\ [][NextInterleaved]_vars

\* two calls one after the other
NextSequential == Steps \/ CallAgain

SpecSequential == InitShared /\ [][NextSequential]_vars

\* ============================================================ claims
Range(f) == {f[i] : i \in DOMAIN f}

\* the exclusion step has run
Excluded == pc \notin {"detect", "exclude"}
\* the Z values are computed
ZDone == pc \in {"first", "second", "stats", "done"}
\* the first-layer scores are computed
FirstDone == pc \in {"second", "stats", "done"}

\* the closed bounding box of r, written on the coordinates
InBox(px, py, r) ==
    /\ r.x <= px /\ px <= r.x + r.width
    /\ r.y <= py /\ py <= r.y + r.height

HoldsPoint(r) ==
    \E j \in 1..Len(cyan_points) : InBox(cyan_points[j].x, cyan_points[j].y, r)

HoldsCenter(r) ==
    \E j \in 1..Len(brown_rectangles) :
        InBox(brown_rectangles[j].center[1], brown_rectangles[j].center[2], r)

PointOnly(r) == HoldsPoint(r) /\ ~HoldsCenter(r)

\* C1: a reference rectangle is in the excluded list iff it contains at
\* least one candidate point and no candidate rectangle's center; in every
\* other case it is in the filtered list.
C1_ExclusionRule ==
    Excluded =>
        \A i \in 1..Len(red_rectangles) :
            LET r == red_rectangles[i] IN
            /\ (r \in Range(detection_results.excluded_red_rectangles))
                  <=> PointOnly(r)
            /\ (r \in Range(filtered_red_rectangles)) <=> ~PointOnly(r)

\* one rectangle excluded for its point, one kept although it holds a point
C1_Witness ==
    /\ pc = "z"
    /\ \E i \in 1..Len(red_rectangles) :
          /\ PointOnly(red_rectangles[i])
          /\ red_rectangles[i] \in Range(detection_results.excluded_red_rectangles)
    /\ \E i \in 1..Len(red_rectangles) :
          /\ HoldsPoint(red_rectangles[i])
          /\ HoldsCenter(red_rectangles[i])
          /\ red_rectangles[i] \in Range(filtered_red_rectangles)

\* the positions in the reference list of the entries of a sublist
IsOrderedSublist(sub, full) ==
    /\ \A k \in 1..Len(sub) : sub[k] \in Range(full)
    /\ \A k \in 1..(Len(sub) - 1) : sub[k].id < sub[k + 1].id

\* C2: the filtered and the excluded list partition the reference list:
\* the lengths add up, no entry is in both, every entry is in one, and each
\* list keeps the reference order.
C2_Partition ==
    Excluded =>
        LET f == filtered_red_rectangles
            e == detection_results.excluded_red_rectangles
        IN  /\ Len(f) + Len(e) = Len(red_rectangles)
            /\ Range(f) \cap Range(e) = {}
            /\ Range(f) \cup Range(e) = Range(red_rectangles)
            /\ IsOrderedSublist(f, red_rectangles)
            /\ IsOrderedSublist(e, red_rectangles)

\* the first reference rectangle excluded and the second kept
C2_Witness ==
    /\ pc = "z"
    /\ Len(red_rectangles) = 2
    /\ detection_results.excluded_red_rectangles = <<red_rectangles[1]>>
    /\ filtered_red_rectangles = <<red_rectangles[2]>>

\* the reference rectangles that are not point-only, in reference order
Kept == SelectSeq(red_rectangles, LAMBDA r : ~PointOnly(r))

\* C3 (first part): at the end of the pipeline Z1, the first-layer scores
\* and the second-layer score are those of the kept reference rectangles
\* alone, and Z2 is that of all candidate rectangles.
C3_ExcludedContributeNothing ==
    pc = "done" =>
        /\ z1_values = ZValues(Kept)
        /\ z2_values = ZValues(brown_rectangles)
        /\ first_layer_accuracies = FirstLayer(ZValues(Kept), ZValues(brown_rectangles))
        /\ second_layer_accuracy = SecondLayer(Kept, brown_rectangles, cyan_points)

\* two reference rectangles, the first holding the only candidate
\* rectangle's center and the second holding only a candidate point
ScenarioC ==
    /\ Len(red_rectangles) = 2
    /\ Len(brown_rectangles) = 1
    /\ InBox(brown_rectangles[1].center[1], brown_rectangles[1].center[2],
             red_rectangles[1])
    /\ PointOnly(red_rectangles[2])

ScenarioCOutcome ==
    /\ filtered_red_rectangles = <<red_rectangles[1]>>
    /\ detection_results.excluded_red_rectangles = <<red_rectangles[2]>>
    /\ z1_values = <<One>>
    /\ z2_values = <<One>>
    /\ first_layer_accuracies = <<One>>
    /\ second_layer_accuracy = One

\* C3 as stated: the scenario alone gives the outcome
C3_Original ==
    /\ C3_ExcludedContributeNothing
    /\ (pc = "done" /\ ScenarioC) => ScenarioCOutcome

\* C3 as amended: the scenario gives the outcome when, besides, the first
\* reference rectangle and the candidate rectangle have a positive area and
\* the first reference rectangle holds no candidate point.
C3_Pipeline ==
    /\ C3_ExcludedContributeNothing
    /\ (/\ pc = "done"
        /\ ScenarioC
        /\ red_rectangles[1].area > 0
        /\ brown_rectangles[1].area > 0
        /\ ~HoldsPoint(red_rectangles[1])) => ScenarioCOutcome

C3_Witness ==
    /\ pc = "done"
    /\ ScenarioC
    /\ red_rectangles[1].area > 0
    /\ brown_rectangles[1].area > 0
    /\ ~HoldsPoint(red_rectangles[1])
    /\ red_rectangles[2].area > 0

\* the rectangles the detection step returned
AllRects == Range(red_rectangles) \cup Range(brown_rectangles)

\* C4: is_inside_rectangle holds of exactly the points of the closed box:
\* of the points up to one step beyond the box, a point is outside iff it
\* is beyond one of the four edges; the corners are inside.
C4_ClosedBox ==
    pc \in {"exclude", "z"} =>
        \A r \in AllRects :
            /\ \A px \in (r.x - 1)..(r.x + r.width + 1),
                  py \in (r.y - 1)..(r.y + r.height + 1) :
                  is_inside_rectangle(<<px, py>>, r)
                     <=> ~(\/ px < r.x \/ px > r.x + r.width
                           \/ py < r.y \/ py > r.y + r.height)
            /\ is_inside_rectangle(<<r.x, r.y>>, r)
            /\ is_inside_rectangle(<<r.x + r.width, r.y + r.height>>, r)

\* a reference rectangle excluded for a point on its far corner
C4_Witness ==
    /\ pc = "z"
    /\ \E i \in 1..Len(detection_results.excluded_red_rectangles) :
          LET r == detection_results.excluded_red_rectangles[i] IN
          /\ r.area > 0
          /\ \A j \in 1..Len(cyan_points) :
                /\ cyan_points[j].x = r.x + r.width
                /\ cyan_points[j].y = r.y + r.height

\* C5: the center of every rectangle is contained in the rectangle.
C5_CenterInside ==
    pc \in {"exclude", "z"} => \A r \in AllRects : is_inside_rectangle(r.center, r)

\* a rectangle with an odd side (the center is truncated) and a rectangle
\* with an empty side (the center is on the box's only line)
C5_Witness ==
    /\ pc = "exclude"
    /\ \E r \in AllRects : r.height % 2 = 1 /\ r.width > 0
    /\ \E r \in AllRects : r.height = 0

\* C6 as stated: every scored pair with Z1_i = Z2_i has P_i = 1.
C6_Original ==
    FirstDone =>
        \A i \in 1..Len(first_layer_accuracies) :
            z1_values[i] = z2_values[i] => first_layer_accuracies[i] = One

\* C6 as amended: a scored pair with Z1_i = Z2_i > 0 has P_i = 1, and a
\* pair with Z1_i = Z2_i = 0 has P_i = 0.
C6_EqualPositive ==
    FirstDone =>
        \A i \in 1..Len(first_layer_accuracies) :
            z1_values[i] = z2_values[i] =>
                first_layer_accuracies[i] =
                    IF RLt(Zero, z1_values[i]) THEN One ELSE Zero

\* an equal pair of fractions strictly between 0 and 1, scored 1
C6_Witness ==
    /\ pc = "second"
    /\ \E i \in 1..Len(first_layer_accuracies) :
          /\ z1_values[i] = z2_values[i]
          /\ z1_values[i] \notin {Zero, One}
          /\ first_layer_accuracies[i] = One

\* a <= b on rationals
RLe(a, b) == a[1] * b[2] <= b[1] * a[2]

\* C7: every first-layer score lies in [0, 1].
C7_UnitInterval ==
    FirstDone =>
        \A i \in 1..Len(first_layer_accuracies) :
            /\ RLe(Zero, first_layer_accuracies[i])
            /\ RLe(first_layer_accuracies[i], One)

\* a score strictly inside the interval, from Z1_i < Z2_i
C7_Witness ==
    /\ pc = "second"
    /\ \E i \in 1..Len(first_layer_accuracies) :
          /\ RLt(z1_values[i], z2_values[i])
          /\ first_layer_accuracies[i] \notin {Zero, One}

\* C8: a scored pair in which exactly one of Z1_i, Z2_i is 0 has P_i = 0.
C8_OneZero ==
    FirstDone =>
        \A i \in 1..Len(first_layer_accuracies) :
            ((z1_values[i] = Zero) # (z2_values[i] = Zero)) =>
                first_layer_accuracies[i] = Zero

\* Z1_i = 0 against a Z2_i strictly between 0 and 1
C8_Witness ==
    /\ pc = "second"
    /\ \E i \in 1..Len(first_layer_accuracies) :
          z1_values[i] = Zero /\ z2_values[i] \notin {Zero, One}

\* C9: there are min(len(Z1), len(Z2)) scores, the i-th is the score of
\* the pair (Z1[i], Z2[i]) taken alone, and the whole output is that of the
\* two sequences cut to the common length.
C9_PositionalPairing ==
    FirstDone =>
        LET m == IF Len(z1_values) <= Len(z2_values)
                 THEN Len(z1_values) ELSE Len(z2_values)
        IN  /\ Len(first_layer_accuracies) = m
            /\ \A i \in 1..m :
                  <<first_layer_accuracies[i]>>
                     = FirstLayer(<<z1_values[i]>>, <<z2_values[i]>>)
            /\ first_layer_accuracies
                  = FirstLayer(SubSeq(z1_values, 1, m), SubSeq(z2_values, 1, m))

\* Z2 longer than Z1, with entries that differ
C9_Witness ==
    /\ pc = "second"
    /\ Len(z1_values) = 1
    /\ Len(z2_values) = 2
    /\ z2_values[1] # z2_values[2]
    /\ Len(first_layer_accuracies) = 1

\* C10: the Z1 values of a filtered reference list with a positive total
\* area sum to 1, and so do the Z2 values of a candidate list with a
\* positive total area.
C10_SumToOne ==
    ZDone =>
        /\ (filtered_red_rectangles # <<>> /\ SumArea(filtered_red_rectangles) > 0)
              => RSum(z1_values) = One
        /\ (brown_rectangles # <<>> /\ SumArea(brown_rectangles) > 0)
              => RSum(z2_values) = One

\* two unequal fractions on the reference side, a zero among the
\* candidate fractions
C10_Witness ==
    /\ pc = "first"
    /\ Len(z1_values) = 2
    /\ z1_values[1] \notin {Zero, One}
    /\ z1_values[1] # z1_values[2]
    /\ Len(z2_values) = 2
    /\ Zero \in Range(z2_values)

\* z is empty for an empty or zero-total source list, and otherwise holds
\* area / total for every entry of the source list, in its order
ZMatches(z, source) ==
    IF source = <<>> \/ SumArea(source) = 0
    THEN z = <<>>
    ELSE /\ Len(z) = Len(source)
         /\ \A i \in 1..Len(source) :
               /\ z[i][1] * SumArea(source) = source[i].area * z[i][2]
               /\ source[i].area = 0 => z[i] = Zero

\* C11: Z1 is empty when the filtered reference list is empty or has total
\* area 0, and otherwise has one entry per filtered rectangle, in order
\* (0 for a zero-area rectangle); Z2 likewise over the candidate
\* rectangles; each length is 0 or the length of the source.
C11_ZShape ==
    pc = "first" =>
        /\ ZMatches(z1_values, filtered_red_rectangles)
        /\ ZMatches(z2_values, brown_rectangles)
        /\ Len(z1_values) \in {0, Len(filtered_red_rectangles)}
        /\ Len(z2_values) \in {0, Len(brown_rectangles)}

\* a zero-area rectangle first in a filtered list with a positive total,
\* and a candidate list whose only rectangle has area 0
C11_Witness ==
    /\ pc = "first"
    /\ Len(filtered_red_rectangles) = 2
    /\ filtered_red_rectangles[1].area = 0
    /\ z1_values = <<Zero, One>>
    /\ Len(brown_rectangles) = 1
    /\ z2_values = <<>>

\* C12: the second-layer score lies in [0, 1], and is 0 for an empty
\* reference list.
C12_SecondLayerRange ==
    pc = "stats" =>
        /\ RLe(Zero, second_layer_accuracy)
        /\ RLe(second_layer_accuracy, One)
        /\ filtered_red_rectangles = <<>> => second_layer_accuracy = Zero

\* two scored reference rectangles and a score strictly inside (0, 1)
C12_Witness ==
    /\ pc = "stats"
    /\ Len(filtered_red_rectangles) = 2
    /\ \A i \in 1..2 : HoldsCenter(filtered_red_rectangles[i])
    /\ second_layer_accuracy \notin {Zero, One}

\* matches_i and targets_i, counted on the coordinates
MatchCount(r) ==
    Cardinality({j \in 1..Len(brown_rectangles) :
        InBox(brown_rectangles[j].center[1], brown_rectangles[j].center[2], r)})

TargetCount(r) ==
    MatchCount(r)
    + Cardinality({j \in 1..Len(cyan_points) :
        InBox(cyan_points[j].x, cyan_points[j].y, r)})

\* the sum of matches_i / targets_i over the first n filtered rectangles
\* that have a target
RECURSIVE RatioSum(_)
RatioSum(n) ==
    IF n = 0 THEN Zero
    ELSE IF TargetCount(filtered_red_rectangles[n]) > 0
         THEN RAdd(RatioSum(n - 1),
                   Rat(MatchCount(filtered_red_rectangles[n]),
                       TargetCount(filtered_red_rectangles[n])))
         ELSE RatioSum(n - 1)

Scored ==
    {i \in 1..Len(filtered_red_rectangles) :
        TargetCount(filtered_red_rectangles[i]) > 0}

\* C13: the second-layer score is the unweighted mean of matches_i /
\* targets_i over the reference rectangles with targets_i > 0, and 0 when
\* there is none.
C13_MeanOfRatios ==
    pc = "stats" =>
        second_layer_accuracy =
            IF Scored = {} THEN Zero
            ELSE RDiv(RatioSum(Len(filtered_red_rectangles)),
                      Rat(Cardinality(Scored), 1))

\* one rectangle without targets beside one with a ratio inside (0, 1)
C13_Witness ==
    /\ pc = "stats"
    /\ Len(filtered_red_rectangles) = 2
    /\ Cardinality(Scored) = 1
    /\ second_layer_accuracy \notin {Zero, One}

\* C16: after the exclusion every filtered reference rectangle with a
\* target holds a candidate center, and the second-layer score is 0 iff no
\* filtered rectangle holds a candidate center, and positive otherwise.
C16_ScoredRatiosPositive ==
    pc = "stats" =>
        LET withCenter ==
              \E i \in 1..Len(filtered_red_rectangles) :
                  HoldsCenter(filtered_red_rectangles[i])
        IN  /\ \A i \in 1..Len(filtered_red_rectangles) :
                  TargetCount(filtered_red_rectangles[i]) > 0
                     => MatchCount(filtered_red_rectangles[i]) >= 1
            /\ (second_layer_accuracy = Zero) <=> ~withCenter
            /\ withCenter => RLt(Zero, second_layer_accuracy)

\* a rectangle excluded for its point beside a kept one that holds a
\* center and a point
C16_Witness ==
    /\ pc = "stats"
    /\ detection_results.excluded_red_rectangles # <<>>
    /\ \E i \in 1..Len(filtered_red_rectangles) :
          /\ HoldsCenter(filtered_red_rectangles[i])
          /\ HoldsPoint(filtered_red_rectangles[i])
    /\ RLt(Zero, second_layer_accuracy)
    /\ second_layer_accuracy # One

\* what the running call returns and records when it is the only call made
\* on a fresh detector, computed from its three input lists
AloneExclusion ==
    ExcludeLoop(red_rectangles, brown_rectangles, cyan_points, 1, <<>>, <<>>)

AloneRecord ==
    LET f == AloneExclusion.filtered IN
    [z1_values |-> ZValues(f),
     z2_values |-> ZValues(brown_rectangles),
     first_layer_accuracy |-> FirstLayer(ZValues(f), ZValues(brown_rectangles)),
     second_layer_accuracy |-> SecondLayer(f, brown_rectangles, cyan_points),
     excluded_red_rectangles |-> AloneExclusion.excluded]

EndsAsAlone ==
    /\ filtered_red_rectangles = AloneExclusion.filtered
    /\ z1_values = AloneRecord.z1_values
    /\ z2_values = AloneRecord.z2_values
    /\ first_layer_accuracies = AloneRecord.first_layer_accuracy
    /\ second_layer_accuracy = AloneRecord.second_layer_accuracy
    /\ detection_results.excluded_red_rectangles = AloneRecord.excluded_red_rectangles
    /\ detection_results.z1_values = AloneRecord.z1_values
    /\ detection_results.z2_values = AloneRecord.z2_values
    /\ detection_results.first_layer_accuracy = AloneRecord.first_layer_accuracy
    /\ detection_results.second_layer_accuracy = AloneRecord.second_layer_accuracy
    /\ detection_results.matching_statistics =
          Statistics(AloneExclusion.filtered, brown_rectangles, cyan_points,
                     AloneRecord)

\* C14: of two interleaved calls, the one that ends while the other is
\* under way (its lists detected, its statistics not yet generated) ends
\* with the returned values and the recorded fields it has when run alone.
\* The running call is at "done" only in the state its statistics step
\* leaves: Switch never resumes a finished call.
C14_NoInterference ==
    (pc = "done" /\ other.pc \notin {"none", "detect", "done"}) => EndsAsAlone

\* C15: once calculate_second_layer_accuracy has returned in the latest
\* call, the recorded second-layer score is the returned value, and so is
\* the copy in the statistics once they are generated.
C15_RecordedScore ==
    /\ pc \in {"stats", "done"} =>
          detection_results.second_layer_accuracy = second_layer_accuracy
    /\ pc = "done" =>
          detection_results.matching_statistics.accuracy_summary.second_layer_accuracy
             = second_layer_accuracy

====
